---- MODULE Spec2Model ----
\* Verification model of the burrow execution state store
\* (src/execution/config.go) and of the key-space prefixer it is built on
\* (src/unnamed/part_004, package storage).
EXTENDS Integers, Sequences, FiniteSets, TLC

\* ---------------------------------------------------------------- bounds
NumProcs == 2     \* concurrent callers of Update / Hash
MaxHeight == 3    \* block heights offered to AddBlock are 0..MaxHeight
MaxVersion == 2   \* tree.Save is offered while tree version < MaxVersion
MaxKeyLen == 2    \* prefixes and local keys handed to Prefix have 0..MaxKeyLen bytes

\* ------------------------------------------------------- program constants
uint64Length == 8
tmhashSize == 32
AddressLength == 20
Word256Length == 32
ByteA == 97
ByteB == 98
ByteM == 109
ByteN == 110
ByteR == 114
ByteS == 115
ByteT == 116
ByteX == 120
GlobalPermissionsBalance == 1337

Procs == 1..NumProcs
Nil == [kind |-> "nil"]

\* ------------------------------------------------------------ byte strings
Zeros(n) == [i \in 1..n |-> 0]

\* big-endian fixed width encoding of a small natural number
BigEndian(n, len) ==
  [i \in 1..len |-> IF len - i > 2 THEN 0 ELSE (n \div (256 ^ (len - i))) % 256]

\* decoding of a big-endian number whose high bytes are zero
RECURSIVE FromBigEndian(_)
FromBigEndian(bs) ==
  IF bs = <<>> THEN 0
  ELSE 256 * FromBigEndian(SubSeq(bs, 1, Len(bs) - 1)) + bs[Len(bs)]

\* finite maps with a dynamic domain
Put(f, k, v) == [x \in DOMAIN f \cup {k} |-> IF x = k THEN v ELSE f[x]]
Del(f, k) == [x \in DOMAIN f \ {k} |-> f[x]]
Lookup(f, k) == IF k \in DOMAIN f THEN f[k] ELSE Nil
EmptyMap == <<>>

HasPrefix(k, p) == Len(k) >= Len(p) /\ SubSeq(k, 1, Len(p)) = p

\* bytes.Compare(a, b) < 0
LexLess(a, b) ==
  \/ \E i \in 1..Len(a) :
       /\ i <= Len(b)
       /\ a[i] < b[i]
       /\ \A j \in 1..(i - 1) : a[j] = b[j]
  \/ Len(a) < Len(b) /\ SubSeq(b, 1, Len(a)) = a

RECURSIVE SortKeys(_)
SortKeys(S) ==
  IF S = {} THEN <<>>
  ELSE LET m == CHOOSE x \in S : \A y \in S \ {x} : LexLess(x, y)
       IN <<m>> \o SortKeys(S \ {m})

\* ------------------------------------------------------------ storage.Prefix
treePrefix == <<ByteM>>
refsPrefix == <<ByteR>>

PrefixKeyLocalFirst(p, key) == key \o p
PrefixKey(p, key) == p \o key

PrefixSuffix(p, key) == SubSeq(key, Len(p) + 1, Len(key))

\* none, or the byte string bs
None == [none |-> TRUE, key |-> <<>>]
Some(bs) == [none |-> FALSE, key |-> bs]

\* the last position of p whose byte is one of bytes
LastWhere(p, bytes) ==
  CHOOSE i \in {j \in 1..Len(p) : p[j] \in bytes} : \A j \in (i + 1)..Len(p) : p[j] \notin bytes

AboveKeepsTail(p) ==
  IF \A i \in 1..Len(p) : p[i] \notin 0..254 THEN None
  ELSE Some([j \in 1..Len(p) |-> IF j = LastWhere(p, 0..254) THEN p[j] + 1 ELSE p[j]])
Above(p) ==
  IF \A i \in 1..Len(p) : p[i] \notin 0..254 THEN None
  ELSE Some([j \in 1..LastWhere(p, 0..254) |->
               IF j = LastWhere(p, 0..254) THEN p[j] + 1 ELSE p[j]])

BelowKeepsTail(p) ==
  IF \A i \in 1..Len(p) : p[i] \notin 1..255 THEN None
  ELSE Some([j \in 1..Len(p) |-> IF j = LastWhere(p, 1..255) THEN p[j] - 1 ELSE p[j]])
Below(p) ==
  IF \A i \in 1..Len(p) : p[i] \notin 1..255 THEN None
  ELSE Some([j \in 1..LastWhere(p, 1..255) |->
               IF j = LastWhere(p, 1..255) THEN p[j] - 1 ELSE p[j]])

\* the byte strings of at most n bytes over the bytes that matter to Above and
\* Below: the extremes and their neighbours
ByteValues == {0, 1, 2, 255}
RECURSIVE ByteStrings(_)
ByteStrings(n) ==
  IF n = 0 THEN {<<>>}
  ELSE ByteStrings(n - 1)
         \cup {Append(x, b) : x \in {y \in ByteStrings(n - 1) : Len(y) = n - 1}, b \in ByteValues}

\* the underlying iterators (iteratorFn): the keys of d in [pstart, pend)
\* ascending, and in reverse the keys of (pend, pstart] descending; a bound
\* that is none leaves its side open
RECURSIVE Reversed(_)
Reversed(ks) == IF ks = <<>> THEN <<>> ELSE Append(Reversed(Tail(ks)), Head(ks))

SourceIterator(d, pstart, pend) ==
  SortKeys({k \in DOMAIN d :
              /\ ~LexLess(k, pstart.key)
              /\ pend.none \/ LexLess(k, pend.key)})

SourceReverseIterator(d, pstart, pend) ==
  Reversed(SortKeys({k \in DOMAIN d :
                       /\ pstart.none \/ ~LexLess(pstart.key, k)
                       /\ pend.none \/ LexLess(pend.key, k)}))

\* a prefixIterator: the source is the key sequence of the underlying
\* iterator, its cursor pos, and the number of times it has been closed
SourceValid(it) == it.closed = 0 /\ it.pos <= Len(it.keys)

\* skipOne(iterator, skipKey): the position after a first item equal to skipKey
skipOne(keys, skipKey) == IF keys # <<>> /\ Head(keys) = skipKey.key THEN 2 ELSE 1

PrefixForwardIteratorFromPrefix(p, d, start, end) ==
  [prefix |-> p, start |-> start, end |-> end, invalid |-> FALSE, closed |-> 0, pos |-> 1,
   keys |-> SourceIterator(d, Some(p),
                           IF end.none THEN Above(p) ELSE Some(PrefixKey(p, end.key)))]
PrefixForwardIterator(p, d, start, end) ==
  [prefix |-> p, start |-> start, end |-> end, invalid |-> FALSE, closed |-> 0, pos |-> 1,
   keys |-> SourceIterator(d, Some(PrefixKey(p, start.key)),
                           IF end.none THEN Above(p) ELSE Some(PrefixKey(p, end.key)))]

PrefixReverseIteratorEndFromStart(p, d, start, end) ==
  LET keys == SourceReverseIterator(d,
                IF end.none THEN Above(p) ELSE Some(PrefixKey(p, end.key)),
                IF start.none THEN Below(p) ELSE Some(PrefixKey(p, start.key)))
  IN [prefix |-> p, start |-> start, end |-> end, invalid |-> FALSE, closed |-> 0,
      pos |-> skipOne(keys, Above(p)), keys |-> keys]
PrefixReverseIterator(p, d, start, end) ==
  LET keys == SourceReverseIterator(d,
                IF start.none THEN Above(p) ELSE Some(PrefixKey(p, start.key)),
                IF end.none THEN Below(p) ELSE Some(PrefixKey(p, end.key)))
  IN [prefix |-> p, start |-> start, end |-> end, invalid |-> FALSE, closed |-> 0,
      pos |-> skipOne(keys, Above(p)), keys |-> keys]

validate(it) ==
  IF it.invalid THEN it
  ELSE IF ~SourceValid(it) \/ ~HasPrefix(it.keys[it.pos], it.prefix)
         THEN [it EXCEPT !.invalid = TRUE, !.closed = @ + 1]
         ELSE it

\* the caller's loop `for it.Valid() { it.Key(); it.Next() }`: the local keys
\* the iterator yields from its position on
RECURSIVE Drain(_)
Drain(it) ==
  LET v == validate(it)
  IN IF v.invalid \/ ~SourceValid(v) THEN <<>>
     ELSE <<PrefixSuffix(v.prefix, v.keys[v.pos])>> \o Drain([v EXCEPT !.pos = @ + 1])

\* prefixKVStore over the backend d
StoreGet(prefix, d, key) == Lookup(d, PrefixKey(prefix, key))
StoreHas(prefix, d, key) == PrefixKey(prefix, key) \in DOMAIN d

\* ------------------------------------------------------------- key formats
accountKey(addr) == <<ByteA>> \o addr
storageKey(addr, word) == <<ByteS>> \o addr \o word
nameKey(name) == <<ByteN>> \o name
blockRefKey(height) == <<ByteB>> \o BigEndian(height, uint64Length)
txRefKey(height, index) ==
  <<ByteT>> \o BigEndian(height, uint64Length) \o BigEndian(index, uint64Length)
txKey(txHash) == <<ByteB>> \o txHash
commitKey(hash) == <<ByteX>> \o hash
\* iavl keeps one root entry per saved version
rootKey(version) == <<ByteR>> \o BigEndian(version, uint64Length)

\* --------------------------------------------------------------- payloads
Address(i) == Zeros(AddressLength - 1) \o <<i>>
Word256(i) == Zeros(Word256Length - 1) \o <<i>>
Zero256 == Word256(0)

Addresses == {Address(1)}
SlotKeys == {Word256(1)}
SlotValues == {Zero256, Word256(1)}
Names == {<<ByteN, ByteA>>}
Balances == {1000}
Accounts == [Address : Addresses, Balance : Balances]
Entries == [Name : Names, Data : {1}]
\* one tx hash that sorts between the encodings of heights 1 and 2, one above all
TxHashLow == BigEndian(1, uint64Length) \o Zeros(tmhashSize - uint64Length)
TxHashHigh == [i \in 1..tmhashSize |-> 255]
TxHashes == {TxHashLow, TxHashHigh}

BlockWith(h, hs) ==
  [Height |-> h,
   TxExecutions |-> [i \in 1..Len(hs) |-> [TxHash |-> hs[i], Height |-> h, Index |-> i - 1]]]
\* the chain the callers take their blocks from: one block per height
Chain(h) ==
  BlockWith(h, IF h = 1 THEN <<TxHashLow>> ELSE IF h = 2 THEN <<TxHashHigh>> ELSE <<>>)
Blocks == {Chain(h) : h \in 0..MaxHeight}

\* the codecs are opaque and round-trip consistent: an encoding is the payload
\* tagged with its type, decoding another type's bytes fails
Bytes(bs) == [kind |-> "bytes", bytes |-> bs]
EncodeAccount(acc) == [kind |-> "account", acc |-> acc]
DecodeAccount(v) ==
  IF v.kind = "account" THEN [err |-> FALSE, val |-> v.acc] ELSE [err |-> TRUE, val |-> Nil]
EncodeEntry(e) == [kind |-> "entry", entry |-> e]
DecodeEntry(v) ==
  IF v.kind = "entry" THEN [err |-> FALSE, val |-> v.entry] ELSE [err |-> TRUE, val |-> Nil]
EncodeBlock(be) == [kind |-> "block", be |-> be]
DecodeBlockExecution(v) ==
  IF v.kind = "block" THEN [err |-> FALSE, val |-> v.be] ELSE [err |-> TRUE, val |-> Nil]
MarshalCommitID(c) == [kind |-> "commitid", id |-> c]
UnmarshalCommitID(v) ==
  IF v.kind = "commitid" THEN [err |-> FALSE, val |-> v.id] ELSE [err |-> TRUE, val |-> Nil]

\* ------------------------------------------------------------ storage.CacheDB
\* reads fall through the buffered writes to the backend
CacheGet(cache, d, key) == IF key \in DOMAIN cache THEN cache[key] ELSE Lookup(d, key)

CacheView(cache, d) ==
  [k \in DOMAIN cache \cup DOMAIN d |-> IF k \in DOMAIN cache THEN cache[k] ELSE d[k]]

\* cacheDB.Commit(batch); batch.WriteSync(): every buffered write reaches the
\* backend in one atomic batch
WriteSyncRefsOnly(cache, d) ==
  [k \in {x \in DOMAIN cache : HasPrefix(x, refsPrefix)} \cup DOMAIN d |->
     IF k \in DOMAIN cache THEN cache[k] ELSE d[k]]
WriteSync(cache, d) == CacheView(cache, d)

\* NewCacheDB(db): a write to the cache leaves the backend as it is
CacheWriteThrough(cache, d) == CacheView(cache, d)
CacheBackend(cache, d) == d

\* the reference space is the sub-store of prefix "r" over the cache
RefsGet(cache, d, key) == CacheGet(cache, d, PrefixKey(refsPrefix, key))
RefsSet(cache, key, value) == Put(cache, PrefixKey(refsPrefix, key), value)

\* ------------------------------------------------------------- storage.RWTree
\* the tree of all possible account, storage and name keys, and its content hash
PossibleTreeKeys ==
  {accountKey(a) : a \in Addresses}
    \cup {storageKey(a, k) : a \in Addresses, k \in SlotKeys}
    \cup {nameKey(n) : n \in Names}
KeyOrder == SortKeys(PossibleTreeKeys)
Radix == Cardinality(Balances) + 1
ValCode(v) ==
  CASE v.kind = "account" -> Cardinality({b \in Balances : b <= v.acc.Balance})
    [] v.kind = "bytes" -> v.bytes[Len(v.bytes)]
    [] OTHER -> 1
RECURSIVE DigestFrom(_, _)
DigestFrom(c, i) ==
  IF i > Len(KeyOrder) THEN 0
  ELSE (IF KeyOrder[i] \in DOMAIN c THEN ValCode(c[KeyOrder[i]]) ELSE 0)
         + Radix * DigestFrom(c, i + 1)
\* the hash of the empty tree is empty, every other hash has the hash size
TreeHash(c) == IF DOMAIN c = {} THEN <<>> ELSE BigEndian(DigestFrom(c, 1), tmhashSize)

NewRWTree == [working |-> EmptyMap, read |-> EmptyMap, version |-> 0]
TreeSet(t, key, value) == [t EXCEPT !.working = Put(@, key, value)]
TreeDelete(t, key) == [t EXCEPT !.working = Del(@, key)]
\* reads are served by the last saved or loaded version
TreeGet(t, key) == Lookup(t.read, key)
TreeRootKey(version) == PrefixKey(treePrefix, rootKey(version))
TreeRoot(c) == [kind |-> "tree", kv |-> c]

\* Save seals the working tree as version + 1 and serves reads from it; a Save
\* that fails changes nothing
TreeSave(t, cache, fails) ==
  LET v == t.version + 1
  IN IF fails
       THEN [err |-> TRUE, hash |-> <<>>, version |-> v, tree |-> t, cache |-> cache]
       ELSE [err |-> FALSE, hash |-> TreeHash(t.working), version |-> v,
             tree |-> [working |-> t.working, read |-> t.working, version |-> v],
             cache |-> Put(cache, TreeRootKey(v), TreeRoot(t.working))]

TreeLoad(t, version, cache, d) ==
  LET root == CacheGet(cache, d, TreeRootKey(version))
  IN IF version <= 0 \/ root = Nil
       THEN [err |-> TRUE, tree |-> t]
       ELSE [err |-> FALSE,
             tree |-> [working |-> root.kv, read |-> root.kv, version |-> version]]

\* ------------------------------------------------------------------- State
\* st is the in-memory State (cacheDB, tree, height); d is the physical backend
NewState == [cacheDB |-> EmptyMap, tree |-> NewRWTree, height |-> 0]

CommitIDStale(hash, h, treeVersion) ==
  [Hash |-> hash, Height |-> h, Version |-> treeVersion - 1]
CommitIDHeightAsVersion(hash, h, treeVersion) ==
  [Hash |-> hash, Height |-> h, Version |-> h]
CommitIDOf(hash, h, treeVersion) == [Hash |-> hash, Height |-> h, Version |-> treeVersion]

LoadStateIgnoresLoadError(d, hash) ==
  LET st == NewState
      commitID == UnmarshalCommitID(RefsGet(st.cacheDB, d, commitKey(hash)))
  IN IF commitID.err THEN [err |-> TRUE, state |-> Nil]
     ELSE IF commitID.val.Version <= 0 THEN [err |-> TRUE, state |-> Nil]
     ELSE [err |-> FALSE,
           state |-> [st EXCEPT !.tree = TreeLoad(st.tree, commitID.val.Version, st.cacheDB, d).tree]]
LoadState(d, hash) ==
  LET st == NewState
      commitID == UnmarshalCommitID(RefsGet(st.cacheDB, d, commitKey(hash)))
  IN IF commitID.err THEN [err |-> TRUE, state |-> Nil]
     ELSE IF commitID.val.Version <= 0 THEN [err |-> TRUE, state |-> Nil]
     ELSE LET l == TreeLoad(st.tree, commitID.val.Version, st.cacheDB, d)
          IN IF l.err THEN [err |-> TRUE, state |-> Nil]
             ELSE [err |-> FALSE, state |-> [st EXCEPT !.tree = l.tree]]

GetAccountAbsentIsError(st, address) == DecodeAccount(TreeGet(st.tree, accountKey(address)))
GetAccount(st, address) ==
  LET accBytes == TreeGet(st.tree, accountKey(address))
  IN IF accBytes = Nil THEN [err |-> FALSE, val |-> Nil] ELSE DecodeAccount(accBytes)

LeftPadWord256(v) == IF v = Nil THEN Zero256 ELSE v.bytes

GetStorage(st, address, key) ==
  [err |-> FALSE, val |-> LeftPadWord256(TreeGet(st.tree, storageKey(address, key)))]

GetName(st, name) ==
  LET entryBytes == TreeGet(st.tree, nameKey(name))
  IN IF entryBytes = Nil THEN [err |-> FALSE, val |-> Nil] ELSE DecodeEntry(entryBytes)

GetBlock(st, h) ==
  LET bs == TreeGet(st.tree, blockRefKey(h))
  IN IF bs = Nil THEN [err |-> FALSE, val |-> Nil] ELSE DecodeBlockExecution(bs)

\* txRefKeyFormat.Scan: the two fixed-width numbers after the tag
ScanTxRef(bs) ==
  [height |-> FromBigEndian(SubSeq(bs, 2, 1 + uint64Length)),
   index |-> FromBigEndian(SubSeq(bs, 2 + uint64Length, 1 + 2 * uint64Length))]

GetTx(st, txHash) ==
  LET bs == TreeGet(st.tree, txKey(txHash))
  IN IF bs = Nil THEN [err |-> FALSE, val |-> Nil]
     ELSE LET ref == ScanTxRef(bs.bytes)
              be == GetBlock(st, ref.height)
          IN IF be.err THEN [err |-> TRUE, val |-> Nil]
             \* len(be.TxExecutions) of a nil block is a nil dereference
             ELSE IF be.val = Nil THEN [err |-> TRUE, val |-> Nil, panic |-> TRUE]
             ELSE IF ref.index < Len(be.val.TxExecutions)
                    THEN [err |-> FALSE, val |-> be.val.TxExecutions[ref.index + 1]]
                    ELSE [err |-> TRUE, val |-> Nil]

\* the local keys of the reference space, buffered or stored
RefsKeys(cache, d) ==
  {PrefixSuffix(refsPrefix, k) :
     k \in {x \in DOMAIN CacheView(cache, d) : HasPrefix(x, refsPrefix)}}

\* Prefix.Iterator with both bounds given, over a store with local keys `keys`:
\* the keys of [Key(start), Key(end)) in ascending order, up to the first one
\* that lacks the prefix (validate makes the iterator invalid there)
RECURSIVE WhilePrefixed(_, _)
WhilePrefixed(p, ks) ==
  IF ks = <<>> \/ ~HasPrefix(Head(ks), p) THEN <<>>
  ELSE <<Head(ks)>> \o WhilePrefixed(p, Tail(ks))

PrefixIterator(p, keys, start, end) ==
  LET pstart == PrefixKey(p, start)
      pend == PrefixKey(p, end)
  IN WhilePrefixed(p, SortKeys({k \in keys : ~LexLess(k, pstart) /\ LexLess(k, pend)}))

\* the visitor asks to stop at its stopAt-th call (never when stopAt = 0)
RECURSIVE VisitBlocks(_, _, _, _, _, _)
VisitBlocks(st, d, ks, i, visited, stopAt) ==
  IF i > Len(ks) THEN [stopped |-> FALSE, err |-> FALSE, visited |-> visited]
  ELSE LET block == DecodeBlockExecution(RefsGet(st.cacheDB, d, ks[i]))
       IN IF block.err THEN [stopped |-> TRUE, err |-> TRUE, visited |-> visited]
          ELSE IF Len(visited) + 1 = stopAt
                 THEN [stopped |-> TRUE, err |-> FALSE, visited |-> Append(visited, block.val)]
                 ELSE VisitBlocks(st, d, ks, i + 1, Append(visited, block.val), stopAt)

GetBlocks(st, d, startHeight, endHeight, stopAt) ==
  LET it == PrefixIterator(<<ByteB>>, RefsKeys(st.cacheDB, d),
                           BigEndian(startHeight, uint64Length),
                           BigEndian(endHeight, uint64Length))
  IN VisitBlocks(st, d, it, 1, <<>>, stopAt)

\* the loop of the Iterate functions over the decoded items of an iterator:
\* an item that does not decode ends it with an error, the consumer ends it by
\* asking to stop at its stopAt-th call (never when stopAt = 0)
RECURSIVE Consume(_, _)
Consume(items, stopAt) ==
  IF items = <<>> THEN [stopped |-> FALSE, err |-> FALSE, visited |-> <<>>]
  ELSE IF Head(items).err THEN [stopped |-> TRUE, err |-> TRUE, visited |-> <<>>]
  ELSE IF stopAt = 1 THEN [stopped |-> TRUE, err |-> FALSE, visited |-> <<Head(items).val>>]
  ELSE [Consume(Tail(items), IF stopAt = 0 THEN 0 ELSE stopAt - 1)
          EXCEPT !.visited = <<Head(items).val>> \o @]

\* KeyFormat.Iterator(s.tree, nil, nil): the local keys under the format's
\* prefix in the version reads are served from
TreeKeys(st, prefix) == Drain(PrefixForwardIterator(prefix, st.tree.read, None, None))

IterateAccounts(st, stopAt) ==
  LET ks == TreeKeys(st, <<ByteA>>)
  IN Consume([i \in 1..Len(ks) |-> DecodeAccount(st.tree.read[<<ByteA>> \o ks[i]])], stopAt)

IterateStoragePads(st, address, stopAt) ==
  LET ks == TreeKeys(st, <<ByteS>> \o address)
  IN Consume([i \in 1..Len(ks) |->
                [err |-> FALSE,
                 val |-> <<ks[i], st.tree.read[<<ByteS>> \o address \o ks[i]].bytes>>]],
             stopAt)
IterateStorage(st, address, stopAt) ==
  LET ks == TreeKeys(st, <<ByteS>> \o address)
  IN Consume([i \in 1..Len(ks) |->
                LET value == st.tree.read[<<ByteS>> \o address \o ks[i]].bytes
                IN IF Len(ks[i]) # Word256Length THEN [err |-> TRUE, val |-> Nil]
                   ELSE IF Len(value) # Word256Length THEN [err |-> TRUE, val |-> Nil]
                   ELSE [err |-> FALSE, val |-> <<ks[i], value>>]],
             stopAt)

IterateNames(st, stopAt) ==
  LET ks == TreeKeys(st, <<ByteN>>)
  IN Consume([i \in 1..Len(ks) |-> DecodeEntry(st.tree.read[<<ByteN>> \o ks[i]])], stopAt)

\* ------------------------------------------------------------- write view
Result(err, st) == [err |-> err, state |-> st]

UpdateAccount(st, account) ==
  IF account = Nil THEN Result("nil account", st)
  ELSE Result("", [st EXCEPT !.tree =
                     TreeSet(@, accountKey(account.Address), EncodeAccount(account))])

RemoveAccount(st, address) ==
  Result("", [st EXCEPT !.tree = TreeDelete(@, accountKey(address))])

SetStorageKeepsZero(st, address, key, value) ==
  Result("", [st EXCEPT !.tree = TreeSet(@, storageKey(address, key), Bytes(value))])
SetStorage(st, address, key, value) ==
  IF value = Zero256
    THEN Result("", [st EXCEPT !.tree = TreeDelete(@, storageKey(address, key))])
    ELSE Result("", [st EXCEPT !.tree = TreeSet(@, storageKey(address, key), Bytes(value))])

UpdateName(st, entry) ==
  Result("", [st EXCEPT !.tree = TreeSet(@, nameKey(entry.Name), EncodeEntry(entry))])

RemoveName(st, name) ==
  Result("", [st EXCEPT !.tree = TreeDelete(@, nameKey(name))])

addTx(cache, txHash, h, index) == RefsSet(cache, txKey(txHash), Bytes(txRefKey(h, index)))

RECURSIVE IndexTxs(_, _, _)
IndexTxs(cache, be, n) ==
  IF n = 0 THEN cache
  ELSE addTx(IndexTxs(cache, be, n - 1), be.TxExecutions[n].TxHash, be.Height, n - 1)

HeightMismatchLax(h, be) == h > 0 /\ be.Height < h + 1
HeightMismatch(h, be) == h > 0 /\ be.Height # h + 1

\* encodes tells whether be.Encode() succeeds
AddBlock(st, be, encodes) ==
  IF HeightMismatch(st.height, be) THEN Result("height", st)
  ELSE LET indexed == IndexTxs(st.cacheDB, be, Len(be.TxExecutions))
       IN IF ~encodes
            THEN Result("encode", [st EXCEPT !.height = be.Height, !.cacheDB = indexed])
            ELSE Result("", [st EXCEPT !.height = be.Height,
                                       !.cacheDB = RefsSet(indexed, blockRefKey(be.Height),
                                                           EncodeBlock(be))])

NormaliseHashAsSaved(hash) == hash
NormaliseHash(hash) == IF Len(hash) = 0 THEN Zeros(tmhashSize) ELSE hash

\* writeState.commit as one call on a State that no other caller shares:
\* Save, the CommitID under the hash, the synchronous batch write
commit(st, d, fails) ==
  LET r == TreeSave(st.tree, st.cacheDB, fails)
      hash == NormaliseHash(r.hash)
      cache == RefsSet(r.cache, commitKey(hash),
                       MarshalCommitID(CommitIDOf(hash, st.height, r.version)))
  IN IF r.err THEN [err |-> TRUE, hash |-> <<>>, state |-> st, db |-> d]
     ELSE [err |-> FALSE, hash |-> hash,
           state |-> [st EXCEPT !.tree = r.tree, !.cacheDB = EmptyMap],
           db |-> WriteSync(cache, d)]

\* Copy(db): every pair of the source's readable tree goes into a new State
\* over the target, which commits once
CopyOfWorkingTree(st, target, fails) ==
  LET stateCopy == [NewState EXCEPT !.tree = [@ EXCEPT !.working = st.tree.working]]
      r == commit(stateCopy, target, fails)
  IN IF r.err THEN [err |-> TRUE, state |-> Nil, db |-> r.db]
     ELSE [err |-> FALSE, state |-> r.state, db |-> r.db]
Copy(st, target, fails) ==
  LET stateCopy == [NewState EXCEPT !.tree = [@ EXCEPT !.working = st.tree.read]]
      r == commit(stateCopy, target, fails)
  IN IF r.err THEN [err |-> TRUE, state |-> Nil, db |-> r.db]
     ELSE [err |-> FALSE, state |-> r.state, db |-> r.db]

\* the genesis accounts go into the working tree in the order of the document
RECURSIVE GenesisAccounts(_, _)
GenesisAccounts(st, accounts) ==
  IF accounts = <<>> THEN st
  ELSE GenesisAccounts(UpdateAccount(st, [Address |-> Head(accounts).Address,
                                          Balance |-> Head(accounts).Amount]).state,
                       Tail(accounts))

\* MakeGenesisState(db, genesisDoc): the accounts, the global permissions
\* account under the zero address, one commit
MakeGenesisStateUnsealed(d, genesisDoc, fails) ==
  IF Len(genesisDoc.Validators) = 0 THEN [err |-> TRUE, state |-> Nil, hash |-> <<>>, db |-> d]
  ELSE LET st == UpdateAccount(GenesisAccounts(NewState, genesisDoc.Accounts),
                               [Address |-> Zeros(AddressLength),
                                Balance |-> GlobalPermissionsBalance]).state
       IN [err |-> FALSE, state |-> st, hash |-> NormaliseHash(TreeHash(st.tree.working)),
           db |-> d]
MakeGenesisState(d, genesisDoc, fails) ==
  IF Len(genesisDoc.Validators) = 0 THEN [err |-> TRUE, state |-> Nil, hash |-> <<>>, db |-> d]
  ELSE LET st == UpdateAccount(GenesisAccounts(NewState, genesisDoc.Accounts),
                               [Address |-> Zeros(AddressLength),
                                Balance |-> GlobalPermissionsBalance]).state
           r == commit(st, d, fails)
       IN IF r.err THEN [err |-> TRUE, state |-> Nil, hash |-> <<>>, db |-> r.db]
          ELSE [err |-> FALSE, state |-> r.state, hash |-> r.hash, db |-> r.db]

\* ----------------------------------------------------------------- system
VARIABLES
  db,       \* the physical backend: physical key -> stored value
  s,        \* the live State: cacheDB (buffered writes), tree, height
  pc,       \* where each caller is
  loc,      \* the locals of each caller's Update
  wHolder,  \* RWMutex: the writer that holds or has announced the write lock
  readers,  \* RWMutex: the callers holding the read lock
  lastOp    \* the call that made the last step, with its arguments and result

vars == <<db, s, pc, loc, wHolder, readers, lastOp>>

NoBlock == [Height |-> 0 - 1, TxExecutions |-> <<>>]
IdleLoc == [hash |-> <<>>, version |-> 0, err |-> "", blk |-> NoBlock, pre |-> Nil]

Init ==
  /\ db = EmptyMap
  /\ s = NewState
  /\ pc = [p \in Procs |-> "idle"]
  /\ loc = [p \in Procs |-> IdleLoc]
  /\ wHolder = {}
  /\ readers = {}
  /\ lastOp = [op |-> "NewState"]

\* what an Update finds when it gets the lock
Snapshot == [db |-> db, view |-> CacheView(s.cacheDB, db), version |-> s.tree.version]

\* sync.RWMutex
WriteLockAlwaysFree(w) == TRUE
WriteLockFree(w) == w = {}
ReadersGone(r) == r = {}
ReadLockAlwaysFree(w) == TRUE
ReadLockFree(w) == w = {}
\* defer s.Unlock(): the lock is released whatever Update returns
UnlockedOnSuccess(w, err) == IF err = "" THEN {} ELSE w
Unlocked(w, err) == {}

UpdateCall(p) ==
  /\ pc[p] = "idle"
  /\ pc' = [pc EXCEPT ![p] = "Lock"]
  /\ lastOp' = [op |-> "UpdateCall", proc |-> p]
  /\ UNCHANGED <<db, s, loc, wHolder, readers>>

\* s.Lock(): take the writers' mutex, announce, wait for the readers to leave
Lock(p) ==
  /\ pc[p] = "Lock"
  /\ WriteLockFree(wHolder)
  /\ wHolder' = {p}
  /\ IF ReadersGone(readers)
       THEN /\ pc' = [pc EXCEPT ![p] = "updater"]
            /\ loc' = [loc EXCEPT ![p].pre = Snapshot]
       ELSE /\ pc' = [pc EXCEPT ![p] = "LockWait"]
            /\ loc' = loc
  /\ lastOp' = [op |-> "Lock", proc |-> p]
  /\ UNCHANGED <<db, s, readers>>

LockWait(p) ==
  /\ pc[p] = "LockWait"
  /\ ReadersGone(readers)
  /\ pc' = [pc EXCEPT ![p] = "updater"]
  /\ loc' = [loc EXCEPT ![p].pre = Snapshot]
  /\ lastOp' = [op |-> "Lock", proc |-> p]
  /\ UNCHANGED <<db, s, wHolder, readers>>

\* one call of the updater on the write view
WriteOp(p, name, arg, r) ==
  /\ pc[p] = "updater"
  /\ s' = r.state
  /\ db' = CacheBackend(r.state.cacheDB, db)
  /\ lastOp' = [op |-> name, proc |-> p, arg |-> arg, err |-> r.err, pre |-> s.height]
  /\ UNCHANGED <<pc, wHolder, readers>>

DoUpdateAccount(p, accounts) ==
  \E account \in accounts :
    /\ WriteOp(p, "UpdateAccount", account, UpdateAccount(s, account))
    /\ UNCHANGED loc

DoRemoveAccount(p, addresses) ==
  \E address \in addresses :
    /\ WriteOp(p, "RemoveAccount", address, RemoveAccount(s, address))
    /\ UNCHANGED loc

DoSetStorage(p, addresses, keys, values) ==
  \E address \in addresses, key \in keys, value \in values :
    /\ WriteOp(p, "SetStorage", <<address, key, value>>, SetStorage(s, address, key, value))
    /\ UNCHANGED loc

DoUpdateName(p, entries) ==
  \E entry \in entries :
    /\ WriteOp(p, "UpdateName", entry, UpdateName(s, entry))
    /\ UNCHANGED loc

DoRemoveName(p, names) ==
  \E name \in names :
    /\ WriteOp(p, "RemoveName", name, RemoveName(s, name))
    /\ UNCHANGED loc

DoAddBlock(p, blocks, encodings) ==
  \E be \in blocks, encodes \in encodings :
    LET r == AddBlock(s, be, encodes)
    IN /\ WriteOp(p, "AddBlock", [be |-> be, encodes |-> encodes], r)
       /\ loc' = IF r.err = "" THEN [loc EXCEPT ![p].blk = be] ELSE loc

\* Update goes on to commit only when the updater returned nil
AfterUpdaterAlwaysCommit(failed) == "Save"
AfterUpdater(failed) == IF failed THEN "Unlock" ELSE "Save"

UpdaterReturn(p) ==
  \E failed \in BOOLEAN :
    /\ pc[p] = "updater"
    /\ failed \/ s.tree.version < MaxVersion
    /\ pc' = [pc EXCEPT ![p] = AfterUpdater(failed)]
    /\ loc' = [loc EXCEPT ![p].err = IF failed THEN "updater" ELSE ""]
    /\ lastOp' = [op |-> "updater", proc |-> p, err |-> loc'[p].err]
    /\ UNCHANGED <<db, s, wHolder, readers>>

\* commit: ws.state.tree.Save()
Save(p) ==
  /\ pc[p] = "Save"
  /\ \E fails \in BOOLEAN :
     LET r == TreeSave(s.tree, s.cacheDB, fails)
     IN IF r.err
          THEN /\ pc' = [pc EXCEPT ![p] = "Unlock"]
               /\ loc' = [loc EXCEPT ![p].err = "save"]
               /\ s' = s
          ELSE /\ pc' = [pc EXCEPT ![p] = "refsSet"]
               /\ loc' = [loc EXCEPT ![p].hash = NormaliseHash(r.hash), ![p].version = r.version]
               /\ s' = [s EXCEPT !.tree = r.tree, !.cacheDB = r.cache]
  /\ db' = CacheBackend(s'.cacheDB, db)
  /\ lastOp' = [op |-> "Save", proc |-> p]
  /\ UNCHANGED <<wHolder, readers>>

\* commit: the CommitID goes to the reference space under the hash
RefsSetCommitID(p) ==
  /\ pc[p] = "refsSet"
  /\ s' = [s EXCEPT !.cacheDB =
              RefsSet(@, commitKey(loc[p].hash),
                      MarshalCommitID(CommitIDOf(loc[p].hash, s.height, loc[p].version)))]
  /\ db' = CacheBackend(s'.cacheDB, db)
  /\ pc' = [pc EXCEPT ![p] = "WriteSync"]
  /\ lastOp' = [op |-> "refsSet", proc |-> p]
  /\ UNCHANGED <<loc, wHolder, readers>>

\* commit: the batch of everything buffered is written synchronously. commit
\* takes no result from batch.WriteSync() and returns the hash with the nil
\* error of the CommitID's encoding: a write that fails either loses the batch
\* while commit goes on ("lost") or panics through commit and Update ("panic")
Flush(p, outcomes) ==
  \E outcome \in outcomes :
    /\ pc[p] = "WriteSync"
    /\ db' = IF outcome = "written" THEN WriteSync(s.cacheDB, db) ELSE db
    /\ s' = [s EXCEPT !.cacheDB = EmptyMap]
    /\ pc' = [pc EXCEPT ![p] = "Unlock"]
    /\ loc' = IF outcome = "panic" THEN [loc EXCEPT ![p].err = "panic"] ELSE loc
    /\ lastOp' = [op |-> "WriteSync", proc |-> p, outcome |-> outcome]
    /\ UNCHANGED <<wHolder, readers>>

\* the deferred s.Unlock() and the return of Update: blocked readers go first
Unlock(p) ==
  /\ pc[p] = "Unlock"
  /\ wHolder' = Unlocked(wHolder, loc[p].err)
  /\ readers' = readers \cup {q \in Procs : pc[q] = "RBlocked"}
  /\ pc' = [q \in Procs |-> IF q = p THEN "idle"
                             ELSE IF pc[q] = "RBlocked" THEN "Hash" ELSE pc[q]]
  /\ lastOp' = [op |-> "Update", proc |-> p, err |-> loc[p].err,
                hash |-> IF loc[p].err = "" THEN loc[p].hash ELSE <<>>,
                blk |-> loc[p].blk, pre |-> loc[p].pre]
  /\ loc' = [loc EXCEPT ![p] = IdleLoc]
  /\ UNCHANGED <<db, s>>

HashCall(p) ==
  /\ pc[p] = "idle"
  /\ pc' = [pc EXCEPT ![p] = "RLock"]
  /\ lastOp' = [op |-> "HashCall", proc |-> p]
  /\ UNCHANGED <<db, s, loc, wHolder, readers>>

\* s.RLock(): a reader that arrives while a writer holds or waits is blocked
RLock(p) ==
  /\ pc[p] = "RLock"
  /\ IF ReadLockFree(wHolder)
       THEN /\ readers' = readers \cup {p}
            /\ pc' = [pc EXCEPT ![p] = "Hash"]
       ELSE /\ readers' = readers
            /\ pc' = [pc EXCEPT ![p] = "RBlocked"]
  /\ lastOp' = [op |-> "RLock", proc |-> p]
  /\ UNCHANGED <<db, s, loc, wHolder>>

\* s.tree.Hash() under the read lock, then the deferred RUnlock
Hash(p) ==
  /\ pc[p] = "Hash"
  /\ readers' = readers \ {p}
  /\ pc' = [pc EXCEPT ![p] = "idle"]
  /\ lastOp' = [op |-> "Hash", proc |-> p, hash |-> TreeHash(s.tree.read)]
  /\ UNCHANGED <<db, s, loc, wHolder>>

\* the hashes a CommitID is durably stored for
CommittedHashes(d) ==
  {PrefixSuffix(<<ByteR, ByteX>>, k) : k \in {x \in DOMAIN d : HasPrefix(x, <<ByteR, ByteX>>)}}

\* the CommitID found under the commit key of hash in the store kv
CommitIDIn(kv, hash) == UnmarshalCommitID(kv[PrefixKey(refsPrefix, commitKey(hash))]).val

\* what another writer has sealed into a version: two accounts, two names and
\* storage slots of the first address, among them a value and a key that are
\* not 32 bytes wide
ForeignTrees ==
  LET base ==
        [k \in {accountKey(Address(i)) : i \in 1..2}
                \cup {nameKey(<<ByteN, b>>) : b \in {ByteA, ByteB}}
                \cup {storageKey(Address(1), w) :
                        w \in {Word256(1), <<1>> \o Zeros(Word256Length - 1)}} |->
           IF k[1] = ByteA
             THEN EncodeAccount([Address |-> PrefixSuffix(<<ByteA>>, k), Balance |-> 1000])
             ELSE IF k[1] = ByteN
                    THEN EncodeEntry([Name |-> PrefixSuffix(<<ByteN>>, k), Data |-> 1])
                    ELSE Bytes(Word256(1))]
  IN {base,
      Put(base, storageKey(Address(1), Word256(2)), Bytes(Zeros(Word256Length - 1))),
      Put(base, storageKey(Address(1), Zeros(Word256Length - 2) \o <<1>>), Bytes(Word256(1)))}

\* the backends LoadState may be handed: the one the State has written, one
\* that has lost a sealed version, one whose CommitID names no version, one
\* whose last sealed version holds what another writer put there
InputBackends(d) ==
  {d}
    \cup {Put(d, TreeRootKey(v), TreeRoot(CacheView(kv, d[TreeRootKey(v)].kv))) :
            v \in {x \in 1..MaxVersion : /\ TreeRootKey(x) \in DOMAIN d
                                         /\ TreeRootKey(x + 1) \notin DOMAIN d},
            kv \in ForeignTrees}
    \cup {Del(d, TreeRootKey(v)) : v \in {x \in 1..MaxVersion : TreeRootKey(x) \in DOMAIN d}}
    \cup {Put(d, PrefixKey(refsPrefix, commitKey(hash)),
              MarshalCommitID([CommitIDIn(d, hash) EXCEPT !.Version = v])) :
            hash \in CommittedHashes(d), v \in {0, 0 - 1}}

\* LoadState(db, hash) by a caller that opens the backend; the State in use
\* is not touched
DoLoadState(p, hashes) ==
  \E hash \in hashes, d \in InputBackends(db) :
    /\ pc[p] = "idle"
    /\ lastOp' = [op |-> "LoadState", proc |-> p, hash |-> hash, backend |-> d,
                  err |-> LoadState(d, hash).err, state |-> LoadState(d, hash).state]
    /\ UNCHANGED <<db, s, pc, loc, wHolder, readers>>

\* s.Copy(target) onto an empty target backend; the copy's Save may fail
DoCopyOntoSource(p) ==
  \E fails \in BOOLEAN :
    /\ pc[p] = "idle"
    /\ lastOp' = [op |-> "Copy", proc |-> p, height |-> s.height,
                  err |-> Copy(s, db, fails).err,
                  state |-> Copy(s, db, fails).state,
                  target |-> Copy(s, db, fails).db]
    /\ db' = Copy(s, db, fails).db
    /\ UNCHANGED <<s, pc, loc, wHolder, readers>>
DoCopy(p) ==
  \E fails \in BOOLEAN :
    /\ pc[p] = "idle"
    /\ lastOp' = [op |-> "Copy", proc |-> p, height |-> s.height,
                  err |-> Copy(s, EmptyMap, fails).err,
                  state |-> Copy(s, EmptyMap, fails).state,
                  target |-> Copy(s, EmptyMap, fails).db]
    /\ UNCHANGED <<db, s, pc, loc, wHolder, readers>>

\* genesis documents: no validator, a validator with its account of balance
\* 1000, a validator that has no account
GenesisDocs ==
  {[Validators |-> vs, Accounts |-> as] :
     vs \in {<<>>, <<[Address |-> Address(1), Amount |-> 1000]>>},
     as \in {<<>>, <<[Address |-> Address(1), Amount |-> 1000]>>}}

\* MakeGenesisState(target, genesisDoc) on an empty backend, by a caller that
\* has not committed anything yet; its Save may fail
DoMakeGenesisState(p) ==
  \E genesisDoc \in GenesisDocs, fails \in BOOLEAN :
    /\ pc[p] = "idle"
    /\ db = EmptyMap
    /\ lastOp' = [op |-> "MakeGenesisState", proc |-> p, doc |-> genesisDoc,
                  err |-> MakeGenesisState(EmptyMap, genesisDoc, fails).err,
                  state |-> MakeGenesisState(EmptyMap, genesisDoc, fails).state,
                  hash |-> MakeGenesisState(EmptyMap, genesisDoc, fails).hash,
                  target |-> MakeGenesisState(EmptyMap, genesisDoc, fails).db]
    /\ UNCHANGED <<db, s, pc, loc, wHolder, readers>>

\* the steps of one Update after the updater has been entered
Commit(p) ==
  \/ UpdaterReturn(p)
  \/ Save(p)
  \/ RefsSetCommitID(p)
  \/ Flush(p, {"written"})
  \/ Unlock(p)

\* one caller at a time, every write-view operation, and a copy of the State
\* between two Updates
Next ==
  \/ UpdateCall(1)
  \/ Lock(1)
  \/ DoUpdateAccount(1, Accounts \cup {Nil})
  \/ DoRemoveAccount(1, Addresses)
  \/ DoSetStorage(1, Addresses, SlotKeys, SlotValues)
  \/ DoUpdateName(1, Entries)
  \/ DoRemoveName(1, Names)
  \/ DoAddBlock(1, {Chain(MaxHeight)}, {TRUE})
  \/ UpdaterReturn(1)
  \/ Save(1)
  \/ RefsSetCommitID(1)
  \/ Flush(1, {"written"})
  \/ Unlock(1)
  \/ DoCopy(1)

Spec == Init /\ [][Next]_vars

\* one caller at a time, blocks of every height with and without transactions,
\* two of them of height 0
NextBlocks ==
  \/ UpdateCall(1)
  \/ Lock(1)
  \/ DoAddBlock(1, Blocks \cup {BlockWith(0, <<TxHashLow>>)}, BOOLEAN)
  \/ Commit(1)

SpecBlocks == Init /\ [][NextBlocks]_vars

\* one caller that commits accounts and blocks, reopens the backend by hash,
\* copies the State and makes a genesis State on another backend
NextLoad ==
  \/ UpdateCall(1)
  \/ Lock(1)
  \/ DoUpdateAccount(1, Accounts)
  \/ DoAddBlock(1, Blocks, {TRUE})
  \/ Commit(1)
  \/ DoLoadState(1, CommittedHashes(db) \cup {[i \in 1..tmhashSize |-> 255]})
  \/ DoCopy(1)
  \/ DoMakeGenesisState(1)

SpecLoad == Init /\ [][NextLoad]_vars

\* a Prefix p in the hands of a caller that has a local key for it
InitPrefix ==
  /\ db = EmptyMap
  /\ s = NewState
  /\ pc = [p \in Procs |-> "idle"]
  /\ loc = [p \in Procs |-> IdleLoc]
  /\ wHolder = {}
  /\ readers = {}
  /\ \E p \in ByteStrings(MaxKeyLen), key \in ByteStrings(MaxKeyLen) :
       lastOp = [op |-> "Prefix", prefix |-> p, local |-> key]

\* p.Suffix(p.Key(key))
DoKey ==
  /\ lastOp.op = "Prefix"
  /\ lastOp' = [op |-> "Key", prefix |-> lastOp.prefix, local |-> lastOp.local,
                key |-> PrefixKey(lastOp.prefix, lastOp.local),
                suffix |-> PrefixSuffix(lastOp.prefix, PrefixKey(lastOp.prefix, lastOp.local))]
  /\ UNCHANGED <<db, s, pc, loc, wHolder, readers>>

\* the array behind the slice that append(p[:len(p):len(p)], key...) returns:
\* with nothing to append the capacity suffices and the result is the slice it
\* was given, on the prefix's array; otherwise append allocates a new array
KeyBacking(local, fresh) == IF Len(local) = 0 THEN "prefix" ELSE fresh

\* the caller calls p.Key a second time, for the same local key or the empty
\* one, and then writes a byte into the key that the first call returned
DoWriteKey ==
  /\ lastOp.op = "Key"
  /\ \E other \in {<<>>, lastOp.local}, i \in 1..Len(lastOp.key) :
       LET first == KeyBacking(lastOp.local, "first key")
           second == KeyBacking(other, "second key")
           heap == [a \in {"prefix", "first key", "second key"} |->
                      CASE a = "prefix" -> lastOp.prefix
                        [] a = "first key" -> lastOp.key
                        [] a = "second key" -> PrefixKey(lastOp.prefix, other)]
           written == [heap EXCEPT ![first][i] = (@ + 1) % 256]
       IN lastOp' = [op |-> "WriteKey", prefix |-> lastOp.prefix, local |-> lastOp.local,
                     other |-> other, index |-> i,
                     firstAfter |-> written[first],
                     prefixAfter |-> written["prefix"],
                     otherBefore |-> heap[second],
                     otherAfter |-> written[second]]
  /\ UNCHANGED <<db, s, pc, loc, wHolder, readers>>

DoAbove ==
  /\ lastOp.op = "Prefix"
  /\ lastOp' = [op |-> "Above", prefix |-> lastOp.prefix, above |-> Above(lastOp.prefix)]
  /\ UNCHANGED <<db, s, pc, loc, wHolder, readers>>

DoBelow ==
  /\ lastOp.op = "Prefix"
  /\ lastOp' = [op |-> "Below", prefix |-> lastOp.prefix, below |-> Below(lastOp.prefix)]
  /\ UNCHANGED <<db, s, pc, loc, wHolder, readers>>

\* the functions of a Prefix on every prefix and local key of the bounded length
NextPrefix ==
  \/ DoKey
  \/ DoWriteKey
  \/ DoAbove
  \/ DoBelow

SpecPrefix == InitPrefix /\ [][NextPrefix]_vars

\* a backend that holds keys of several sub-stores and keys of none
PhysicalKeys == {<<>>, <<0, 255>>, <<1>>, <<1, 0>>, <<1, 255>>, <<2>>, <<255>>, <<255, 0>>}
IteratorPrefixes == {<<>>, <<1>>, <<255>>}
IteratorBounds == {None, Some(<<0>>), Some(<<255>>)}

InitIterator ==
  /\ \E keys \in SUBSET PhysicalKeys : db = [k \in keys |-> Bytes(k)]
  /\ s = NewState
  /\ pc = [p \in Procs |-> "idle"]
  /\ loc = [p \in Procs |-> IdleLoc]
  /\ wHolder = {}
  /\ readers = {}
  /\ lastOp = [op |-> "NewState"]

\* Prefix.Iterator and Prefix.ReverseIterator over the backend
NewIterator(p, reverse) ==
  \E prefix \in IteratorPrefixes, start \in IteratorBounds, end \in IteratorBounds :
    /\ pc[p] = "idle"
    /\ loc' = [loc EXCEPT ![p] = IF reverse THEN PrefixReverseIterator(prefix, db, start, end)
                                  ELSE PrefixForwardIterator(prefix, db, start, end)]
    /\ pc' = [pc EXCEPT ![p] = "iterator"]
    /\ lastOp' = [op |-> IF reverse THEN "ReverseIterator" ELSE "Iterator", proc |-> p]
    /\ UNCHANGED <<db, s, wHolder, readers>>

HoldsIterator(p) == pc[p] \in {"iterator", "iterator closed"}

\* a call that panics ends the caller
Panic(p, name) ==
  /\ pc' = [pc EXCEPT ![p] = "panic"]
  /\ lastOp' = [op |-> name, proc |-> p, panic |-> TRUE]
  /\ UNCHANGED <<db, s, loc, wHolder, readers>>

IteratorValid(p) ==
  /\ HoldsIterator(p)
  /\ loc' = [loc EXCEPT ![p] = validate(@)]
  /\ lastOp' = [op |-> "Iterator.Valid", proc |-> p, panic |-> FALSE, was |-> loc[p].invalid,
                result |-> ~loc'[p].invalid /\ SourceValid(loc'[p])]
  /\ UNCHANGED <<db, s, pc, wHolder, readers>>

\* source.Next() of an exhausted or closed underlying iterator panics
IteratorNext(p) ==
  /\ HoldsIterator(p)
  /\ IF loc[p].invalid \/ ~SourceValid(loc[p])
       THEN Panic(p, "Iterator.Next")
       ELSE /\ loc' = [loc EXCEPT ![p] = validate([@ EXCEPT !.pos = @ + 1])]
            /\ lastOp' = [op |-> "Iterator.Next", proc |-> p, panic |-> FALSE]
            /\ UNCHANGED <<db, s, pc, wHolder, readers>>

\* Suffix slices the physical key after len(prefix) bytes, which a shorter
\* key does not have
IteratorKey(p) ==
  /\ HoldsIterator(p)
  /\ IF loc[p].invalid \/ ~SourceValid(loc[p])
          \/ Len(loc[p].keys[loc[p].pos]) < Len(loc[p].prefix)
       THEN Panic(p, "Iterator.Key")
       ELSE /\ lastOp' = [op |-> "Iterator.Key", proc |-> p, panic |-> FALSE,
                          source |-> loc[p].keys[loc[p].pos],
                          key |-> PrefixSuffix(loc[p].prefix, loc[p].keys[loc[p].pos])]
            /\ UNCHANGED <<db, s, pc, loc, wHolder, readers>>

IteratorValue(p) ==
  /\ HoldsIterator(p)
  /\ IF loc[p].invalid \/ ~SourceValid(loc[p])
       THEN Panic(p, "Iterator.Value")
       ELSE /\ lastOp' = [op |-> "Iterator.Value", proc |-> p, panic |-> FALSE,
                          source |-> loc[p].keys[loc[p].pos],
                          value |-> db[loc[p].keys[loc[p].pos]]]
            /\ UNCHANGED <<db, s, pc, loc, wHolder, readers>>

\* the caller's Close
IteratorClose(p) ==
  /\ pc[p] = "iterator"
  /\ loc' = [loc EXCEPT ![p].closed = @ + 1]
  /\ pc' = [pc EXCEPT ![p] = "iterator closed"]
  /\ lastOp' = [op |-> "Iterator.Close", proc |-> p, panic |-> FALSE]
  /\ UNCHANGED <<db, s, wHolder, readers>>

\* one caller that opens an iterator and calls it in any order
NextIterator ==
  \/ \E reverse \in BOOLEAN : NewIterator(1, reverse)
  \/ IteratorValid(1)
  \/ IteratorNext(1)
  \/ IteratorKey(1)
  \/ IteratorValue(1)
  \/ IteratorClose(1)

SpecIterator == InitIterator /\ [][NextIterator]_vars

\* prefixKVStore.Set and Delete of the sub-store of a prefix over the backend
StoreSetUnprefixed(prefix, key, value) ==
  /\ db' = Put(db, key, value)
  /\ lastOp' = [op |-> "Store.Set", prefix |-> prefix, key |-> key, value |-> value]
  /\ UNCHANGED <<s, pc, loc, wHolder, readers>>
StoreSet(prefix, key, value) ==
  /\ db' = Put(db, PrefixKey(prefix, key), value)
  /\ lastOp' = [op |-> "Store.Set", prefix |-> prefix, key |-> key, value |-> value]
  /\ UNCHANGED <<s, pc, loc, wHolder, readers>>

StoreDelete(prefix, key) ==
  /\ db' = Del(db, PrefixKey(prefix, key))
  /\ lastOp' = [op |-> "Store.Delete", prefix |-> prefix, key |-> key]
  /\ UNCHANGED <<s, pc, loc, wHolder, readers>>

\* sub-stores of several prefixes, one of them a prefix of another, written
\* through in any order
StorePrefixes == {<<1>>, <<1, 255>>, <<255>>}
StoreKeys == {<<>>, <<255>>}
StoreValues == {Bytes(<<1>>), Bytes(<<2>>)}

NextStore ==
  \/ \E prefix \in StorePrefixes, key \in StoreKeys, value \in StoreValues :
       StoreSet(prefix, key, value)
  \/ \E prefix \in StorePrefixes, key \in StoreKeys : StoreDelete(prefix, key)

SpecStore == Init /\ [][NextStore]_vars

\* the read operations of State: none of them touches the lock (only Hash
\* does); each reads what the State holds when it runs
ReadCalls ==
  {"GetAccount", "GetStorage", "GetName", "GetBlock", "GetTx", "GetBlocks",
   "IterateAccounts", "IterateStorage", "IterateNames"}

DoReadUnderRLock(p) ==
  \E call \in ReadCalls :
    /\ pc[p] = "idle"
    /\ ReadLockFree(wHolder)
    /\ lastOp' = [op |-> "Read", proc |-> p, call |-> call]
    /\ UNCHANGED <<db, s, pc, loc, wHolder, readers>>
DoRead(p) ==
  \E call \in ReadCalls :
    /\ pc[p] = "idle"
    /\ lastOp' =
         [op |-> "Read", proc |-> p, call |-> call,
          result |->
            CASE call = "GetAccount" -> GetAccount(s, Address(1))
              [] call = "GetStorage" -> GetStorage(s, Address(1), Word256(1))
              [] call = "GetName" -> GetName(s, <<ByteN, ByteA>>)
              [] call = "GetBlock" -> GetBlock(s, 1)
              [] call = "GetTx" -> GetTx(s, TxHashLow)
              [] call = "GetBlocks" -> GetBlocks(s, db, 0, MaxHeight + 1, 0)
              [] call = "IterateAccounts" -> IterateAccounts(s, 0)
              [] call = "IterateStorage" -> IterateStorage(s, Address(1), 0)
              [] call = "IterateNames" -> IterateNames(s, 0)]
    /\ UNCHANGED <<db, s, pc, loc, wHolder, readers>>

\* one caller of Update and callers of the read operations beside it
NextRead ==
  \/ UpdateCall(1)
  \/ Lock(1)
  \/ DoUpdateAccount(1, Accounts)
  \/ DoAddBlock(1, {Chain(1)}, {TRUE})
  \/ Commit(1)
  \/ \E p \in Procs \ {1} : DoRead(p)

SpecRead == Init /\ [][NextRead]_vars

\* concurrent callers of Update and Hash; the synchronous batch write may fail
NextLock ==
  \E p \in Procs :
    \/ UpdateCall(p)
    \/ Lock(p)
    \/ LockWait(p)
    \/ DoUpdateAccount(p, Accounts)
    \/ Commit(p)
    \/ Flush(p, {"lost", "panic"})
    \/ HashCall(p)
    \/ RLock(p)
    \/ Hash(p)

SpecLock == Init /\ [][NextLock]_vars

\* the scheduler runs every caller that can take a step; the mutex hands the
\* write lock to a waiting writer
FairLock ==
  \A p \in Procs :
    /\ WF_vars(LockWait(p) \/ Commit(p) \/ RLock(p) \/ Hash(p))
    /\ SF_vars(Lock(p))

SpecLockFair == SpecLock /\ FairLock

\* ------------------------------------------------------------------ claims
Absent == [err |-> FALSE, val |-> Nil]

\* C1: from a height h > 0 AddBlock succeeds only with Height = h + 1 and
\* answers every other height with the height-mismatch error, leaving the
\* height as it was; from the fresh height 0 Height 1 succeeds, from 1 Height 3
\* fails and Height 2 succeeds and leaves the height at 2.
C1_AddBlockSequencing ==
  lastOp.op = "AddBlock" =>
    LET be == lastOp.arg.be
        h == lastOp.pre
    IN /\ (h > 0 /\ lastOp.err = "" => be.Height = h + 1)
       /\ (h > 0 /\ be.Height # h + 1 => lastOp.err = "height" /\ s.height = h)
       /\ (h = 0 /\ be.Height = 1 /\ lastOp.arg.encodes => lastOp.err = "" /\ s.height = 1)
       /\ (h = 1 /\ be.Height = 3 => lastOp.err # "" /\ s.height = 1)
       /\ (h = 1 /\ be.Height = 2 /\ lastOp.arg.encodes => lastOp.err = "" /\ s.height = 2)

\* blocks 1 and 2 are both in the reference space and the last call added 2
C1_Witness ==
  /\ lastOp.op = "AddBlock" /\ lastOp.pre = 1 /\ lastOp.arg.be.Height = 2
  /\ lastOp.err = "" /\ s.height = 2
  /\ RefsGet(s.cacheDB, db, blockRefKey(1)) # Nil
  /\ RefsGet(s.cacheDB, db, blockRefKey(2)) # Nil

\* C8: after a successful Update that added a block, GetTx of each of the
\* block's tx hashes returns that transaction execution; GetTx of a hash that
\* was never indexed returns absent and no error.
C8_GetTxAfterAddBlock ==
  /\ (lastOp.op = "Update" /\ lastOp.err = "" /\ lastOp.blk # NoBlock) =>
       \A i \in 1..Len(lastOp.blk.TxExecutions) :
         GetTx(s, lastOp.blk.TxExecutions[i].TxHash)
           = [err |-> FALSE, val |-> lastOp.blk.TxExecutions[i]]
  /\ \A h \in TxHashes :
       txKey(h) \notin RefsKeys(s.cacheDB, db) => GetTx(s, h) = Absent

\* C9: after a successful Update that added a block be, GetBlock(be.Height)
\* returns be and the current height is be.Height.
C9_GetBlockAfterAddBlock ==
  (lastOp.op = "Update" /\ lastOp.err = "" /\ lastOp.blk # NoBlock) =>
    /\ GetBlock(s, lastOp.blk.Height) = [err |-> FALSE, val |-> lastOp.blk]
    /\ s.height = lastOp.blk.Height

\* the blocks stored under the block-by-height keys of [a, b), ascending
RECURSIVE StoredBlocks(_, _)
StoredBlocks(a, b) ==
  IF a >= b THEN <<>>
  ELSE LET v == RefsGet(s.cacheDB, db, blockRefKey(b - 1))
       IN StoredBlocks(a, b - 1) \o (IF v = Nil THEN <<>> ELSE <<v.be>>)

\* C10: GetBlocks(a, b) visits exactly the stored blocks of heights a <= h < b
\* in ascending height, without an error, whatever tx hashes are indexed.
C10_GetBlocksExact ==
  \A a, b \in 0..(MaxHeight + 1) :
    GetBlocks(s, db, a, b, 0)
      = [stopped |-> FALSE, err |-> FALSE, visited |-> StoredBlocks(a, b)]

\* addresses, slots and names to ask for, written or never written
QueryAddresses == Addresses \cup {Address(2)}
QuerySlots == SlotKeys \cup {Word256(2)}
QueryNames == Names \cup {<<ByteN, ByteB>>}

SameReads(a, b) ==
  /\ \A address \in QueryAddresses : GetAccount(a, address) = GetAccount(b, address)
  /\ \A address \in QueryAddresses, key \in QuerySlots :
       GetStorage(a, address, key) = GetStorage(b, address, key)
  /\ \A name \in QueryNames : GetName(a, name) = GetName(b, name)

\* C2: LoadState with the hash a successful Update returned succeeds and the
\* loaded state answers GetAccount, GetStorage and GetName as the state that
\* made the commit; every hash a CommitID is stored for loads the contents
\* that hash to it.
C2_LoadStateRoundTrip ==
  /\ (lastOp.op = "Update" /\ lastOp.err = "") =>
       LET l == LoadState(db, lastOp.hash)
       IN ~l.err /\ SameReads(l.state, s)
  /\ \A hash \in CommittedHashes(db) :
       LET l == LoadState(db, hash)
       IN ~l.err /\ NormaliseHash(TreeHash(l.state.tree.read)) = hash

\* the second commit, of a tree holding an account, a slot and a name
C2_Witness ==
  /\ lastOp.op = "Update" /\ lastOp.err = "" /\ s.tree.version = 2
  /\ \E address \in Addresses : GetAccount(s, address) # Absent
  /\ \E address \in Addresses, key \in SlotKeys : GetStorage(s, address, key).val # Zero256
  /\ \E name \in Names : GetName(s, name) # Absent
  /\ Cardinality(CommittedHashes(db)) = 2

BeforeFlush == {"updater", "Save", "refsSet", "WriteSync"}

\* C3: from the moment an Update has the lock until its batch write, the
\* physical backend is what it was when the Update began: no write-view
\* operation and no earlier step of commit reaches it.
C3_BackendUntouchedBeforeFlush ==
  \A p \in Procs : pc[p] \in BeforeFlush => db = loc[p].pre.db

\* a commit about to flush: block, new version and CommitID are all buffered
C3_Witness ==
  /\ pc[1] = "WriteSync"
  /\ TreeRootKey(loc[1].version) \in DOMAIN s.cacheDB
  /\ TreeRootKey(loc[1].version) \notin DOMAIN db
  /\ PrefixKey(refsPrefix, commitKey(loc[1].hash)) \in DOMAIN s.cacheDB
  /\ PrefixKey(refsPrefix, commitKey(loc[1].hash)) \notin DOMAIN db
  /\ PrefixKey(refsPrefix, blockRefKey(MaxHeight)) \in DOMAIN s.cacheDB
  /\ DOMAIN s.tree.read # {}
  /\ DOMAIN db # {}

\* C4: commit saves the tree, then writes the CommitID, then flushes; every
\* CommitID in the backend names its own hash and a version whose root is in
\* the backend too.
C4_CommitOrder ==
  /\ \A hash \in CommittedHashes(db) :
       LET c == UnmarshalCommitID(db[PrefixKey(refsPrefix, commitKey(hash))])
       IN /\ ~c.err
          /\ c.val.Hash = hash
          /\ TreeRootKey(c.val.Version) \in DOMAIN db
  /\ \A p \in Procs :
       /\ pc[p] = "Save" =>
            \A k \in DOMAIN s.cacheDB :
              ~HasPrefix(k, treePrefix) /\ ~HasPrefix(k, <<ByteR, ByteX>>)
       /\ pc[p] = "refsSet" =>
            /\ TreeRootKey(loc[p].version) \in DOMAIN s.cacheDB
            /\ \A k \in DOMAIN s.cacheDB : ~HasPrefix(k, <<ByteR, ByteX>>)
       /\ pc[p] = "WriteSync" =>
            /\ TreeRootKey(loc[p].version) \in DOMAIN s.cacheDB
            /\ PrefixKey(refsPrefix, commitKey(loc[p].hash)) \in DOMAIN s.cacheDB

\* two commits are in the backend
C4_Witness ==
  /\ lastOp.op = "WriteSync"
  /\ Cardinality(CommittedHashes(db)) = 2
  /\ TreeRootKey(2) \in DOMAIN db

CriticalSection == {"updater", "Save", "refsSet", "WriteSync", "Unlock"}

\* C5: at most one caller is between getting the write lock and returning.
C5_OneWriter == Cardinality({p \in Procs : pc[p] \in CriticalSection}) <= 1

\* one Update is committing while another waits for the lock
C5_Witness == \E p, q \in Procs : pc[p] = "WriteSync" /\ pc[q] = "Lock"

\* C6: when no Update holds or is taking the lock it is free, and every caller
\* waiting for the write lock or the read lock gets it.
C6_LockReleased ==
  /\ []((\A p \in Procs : pc[p] \notin CriticalSection \cup {"LockWait"}) => wHolder = {})
  /\ \A p \in Procs : (pc[p] = "Lock") ~> (pc[p] = "updater")
  /\ \A p \in Procs : (pc[p] \in {"RLock", "RBlocked"}) ~> (pc[p] = "Hash")

\* an Update has returned an error and left the lock free for a waiting caller
C6_Witness ==
  /\ lastOp.op = "Update" /\ lastOp.err # ""
  /\ wHolder = {}
  /\ \E q \in Procs : pc[q] = "Lock"

\* what has been sealed: the saved versions and the CommitIDs
Sealed(view) ==
  [k \in {x \in DOMAIN view : HasPrefix(x, treePrefix) \/ HasPrefix(x, <<ByteR, ByteX>>)} |->
     view[k]]

\* C7: an Update whose updater fails returns the error and no hash, without a
\* Save, a CommitID or a flush.
C7_FailedUpdaterSkipsCommit ==
  (lastOp.op = "Update" /\ lastOp.err = "updater") =>
    /\ lastOp.hash = <<>>
    /\ s.tree.version = lastOp.pre.version
    /\ Sealed(CacheView(s.cacheDB, db)) = Sealed(lastOp.pre.view)
    /\ db = lastOp.pre.db

\* the failed updater had changed the tree and added a block
C7_Witness ==
  /\ lastOp.op = "Update" /\ lastOp.err = "updater"
  /\ s.tree.working # s.tree.read
  /\ s.height > 0
  /\ s.cacheDB # EmptyMap

\* RWTree.Has: asked of the version reads are served from
TreeHas(t, key) == key \in DOMAIN t.read

\* C11 as stated: GetStorage right after SetStorage(addr, key, v) returns v,
\* and the slot's key is absent from the tree when v is the zero word.
C11_SetThenGetAtOnce ==
  lastOp.op = "SetStorage" =>
    LET address == lastOp.arg[1]
        key == lastOp.arg[2]
        value == lastOp.arg[3]
    IN /\ GetStorage(s, address, key) = [err |-> FALSE, val |-> value]
       /\ value = Zero256 => ~TreeHas(s.tree, storageKey(address, key))

\* C11: SetStorage(addr, key, v) leaves v under the slot's key in the working
\* tree, and no key at all when v is the zero word; once an Update has
\* committed, GetStorage returns for every slot the word the working tree
\* holds and the keys of cleared slots are absent (Has is false); GetStorage of
\* an absent slot returns the zero word and no error.
C11_SetStorageThenCommit ==
  /\ lastOp.op = "SetStorage" =>
       Lookup(s.tree.working, storageKey(lastOp.arg[1], lastOp.arg[2]))
         = (IF lastOp.arg[3] = Zero256 THEN Nil ELSE Bytes(lastOp.arg[3]))
  /\ (lastOp.op = "Update" /\ lastOp.err = "") =>
       \A address \in QueryAddresses, key \in QuerySlots :
         /\ GetStorage(s, address, key)
              = [err |-> FALSE,
                 val |-> LeftPadWord256(Lookup(s.tree.working, storageKey(address, key)))]
         /\ TreeHas(s.tree, storageKey(address, key))
              <=> storageKey(address, key) \in DOMAIN s.tree.working
  /\ \A address \in QueryAddresses, key \in QuerySlots :
       ~TreeHas(s.tree, storageKey(address, key)) =>
         GetStorage(s, address, key) = [err |-> FALSE, val |-> Zero256]

\* the second commit has cleared a slot that the first commit had sealed
C11_Witness ==
  /\ lastOp.op = "Update" /\ lastOp.err = "" /\ s.tree.version = 2
  /\ \E address \in Addresses, key \in SlotKeys :
       /\ storageKey(address, key) \in DOMAIN db[TreeRootKey(1)].kv
       /\ ~TreeHas(s.tree, storageKey(address, key))
       /\ GetStorage(s, address, key).val = Zero256

\* C12: a CommitID stored under the commit key of its hash stays as it is: no
\* step of any later Update deletes the entry or changes its Height or Version.
C12_CommitIDNeverMutated ==
  [][\A hash \in CommittedHashes(db) :
       /\ hash \in CommittedHashes(db')
       /\ db'[PrefixKey(refsPrefix, commitKey(hash))]
            = db[PrefixKey(refsPrefix, commitKey(hash))]]_vars

\* C13: the Version a commit records in its CommitID is greater than 0 and
\* greater than the Version recorded by every commit before it.
C13_VersionsIncrease ==
  /\ \A hash \in CommittedHashes(db) : CommitIDIn(db, hash).Version > 0
  /\ \A p \in Procs :
       pc[p] = "WriteSync" =>
         /\ CommitIDIn(s.cacheDB, loc[p].hash).Version > 0
         /\ \A hash \in CommittedHashes(db) :
              CommitIDIn(s.cacheDB, loc[p].hash).Version > CommitIDIn(db, hash).Version

\* the second commit has recorded its CommitID, the first one's is stored
C13_Witness ==
  /\ pc[1] = "WriteSync"
  /\ CommitIDIn(s.cacheDB, loc[1].hash).Version = 2
  /\ \E hash \in CommittedHashes(db) : CommitIDIn(db, hash).Version = 1

NextBlockIs(st, h) ==
  /\ st.height = h
  /\ \A be \in Blocks : (AddBlock(st, be, TRUE).err = "") <=> (be.Height = h + 1)

\* C15: a State that LoadState returns for a CommitID recorded at height
\* h > 0, and a State that Copy returns for a source at height h > 0, has
\* height h and accepts as its next block only the one of height h + 1.
C15_HeightRestored ==
  /\ (lastOp.op = "LoadState" /\ ~lastOp.err
        /\ CommitIDIn(lastOp.backend, lastOp.hash).Height > 0) =>
       NextBlockIs(lastOp.state, CommitIDIn(lastOp.backend, lastOp.hash).Height)
  /\ (lastOp.op = "Copy" /\ ~lastOp.err /\ lastOp.height > 0) =>
       NextBlockIs(lastOp.state, lastOp.height)

\* C16: the genesis exemption is used at most once: a successful AddBlock
\* that follows another successful AddBlock on the State, whatever height that
\* one had, has a Height one greater (stated for the AddBlock calls of one
\* updater, whose last accepted block is loc.blk).
C16_GenesisExemptionOnce ==
  [][(lastOp'.op = "AddBlock" /\ lastOp'.err = "" /\ loc[lastOp'.proc].blk # NoBlock) =>
       lastOp'.arg.be.Height = loc[lastOp'.proc].blk.Height + 1]_vars

\* C17: for every prefix p and local key k, the empty one included,
\* Suffix(Key(k)) = k and Key(k) is p followed by k, byte for byte.
C17_KeySuffixRoundTrip ==
  lastOp.op = "Key" =>
    /\ lastOp.suffix = lastOp.local
    /\ Len(lastOp.key) = Len(lastOp.prefix) + Len(lastOp.local)
    /\ \A i \in 1..Len(lastOp.prefix) : lastOp.key[i] = lastOp.prefix[i]
    /\ \A i \in 1..Len(lastOp.local) : lastOp.key[Len(lastOp.prefix) + i] = lastOp.local[i]

\* the empty local key under a two-byte prefix
C17_Witness ==
  /\ lastOp.op = "Key" /\ lastOp.prefix = <<1, 255>> /\ lastOp.local = <<>>
  /\ lastOp.key = <<1, 255>> /\ lastOp.suffix = <<>>

\* the byte strings that begin with p, up to the bounded length
Extensions(p) == {p \o z : z \in ByteStrings(MaxKeyLen + 1)}

\* C18: Above(p) is none exactly when every byte of p is 0xFF (p empty
\* included); otherwise it is greater than every byte string beginning with p
\* and no smaller byte string is.
C18_AboveIsLeastUpperBound ==
  lastOp.op = "Above" =>
    /\ lastOp.above.none <=> (\A i \in 1..Len(lastOp.prefix) : lastOp.prefix[i] = 255)
    /\ ~lastOp.above.none =>
         /\ \A y \in Extensions(lastOp.prefix) : LexLess(y, lastOp.above.key)
         /\ \A x \in ByteStrings(MaxKeyLen + 1) :
              LexLess(x, lastOp.above.key) =>
                \E y \in Extensions(lastOp.prefix) : ~LexLess(y, x)

\* the byte before a trailing 0xFF is the one incremented
C18_Witness ==
  lastOp.op = "Above" /\ lastOp.prefix = <<1, 255>> /\ lastOp.above = Some(<<2>>)

\* C19 as stated: Below(p) is none exactly when every byte of p is 0x00;
\* otherwise it is less than every byte string beginning with p and no byte
\* string lies strictly between Below(p) and p.
C19_BelowIsGreatestLowerBound ==
  lastOp.op = "Below" =>
    /\ lastOp.below.none <=> (\A i \in 1..Len(lastOp.prefix) : lastOp.prefix[i] = 0)
    /\ ~lastOp.below.none =>
         /\ \A y \in Extensions(lastOp.prefix) : LexLess(lastOp.below.key, y)
         /\ \A x \in ByteStrings(MaxKeyLen + 1) :
              ~(LexLess(lastOp.below.key, x) /\ LexLess(x, lastOp.prefix))

\* C19: Below(p) is none exactly when every byte of p is 0x00; otherwise it
\* is less than every byte string beginning with p, and the byte strings
\* strictly between Below(p) and p are the ones that begin with Below(p) and
\* the proper prefixes of p.
C19_BelowIsLowerBound ==
  lastOp.op = "Below" =>
    /\ lastOp.below.none <=> (\A i \in 1..Len(lastOp.prefix) : lastOp.prefix[i] = 0)
    /\ ~lastOp.below.none =>
         /\ \A y \in Extensions(lastOp.prefix) : LexLess(lastOp.below.key, y)
         /\ \A x \in ByteStrings(MaxKeyLen + 1) :
              (LexLess(lastOp.below.key, x) /\ LexLess(x, lastOp.prefix)) =>
                HasPrefix(x, lastOp.below.key) \/ HasPrefix(lastOp.prefix, x)

\* the byte before a trailing 0x00 is the one decremented
C19_Witness ==
  lastOp.op = "Below" /\ lastOp.prefix = <<1, 0>> /\ lastOp.below = Some(<<0>>)

\* C20: whatever the backend holds and in whatever order Valid, Next, Key
\* and Value are called, a key or value the iterator returns comes from a
\* physical key that has the prefix; an iterator that is invalid stays invalid
\* and Valid returns false on every later call.
C20_IteratorContainment ==
  /\ [](\A p \in Procs :
          (HoldsIterator(p) /\ lastOp.op \in {"Iterator.Key", "Iterator.Value"}
             /\ lastOp.proc = p /\ ~lastOp.panic) =>
            HasPrefix(lastOp.source, loc[p].prefix))
  /\ [](\A p \in Procs :
          (HoldsIterator(p) /\ lastOp.op = "Iterator.Valid" /\ lastOp.proc = p /\ lastOp.was) =>
            ~lastOp.result)
  /\ [][\A p \in Procs :
          (HoldsIterator(p) /\ HoldsIterator(p)' /\ loc[p].invalid) => loc'[p].invalid]_vars

\* what the sub-store of prefix over d shows: Get and Has of every local key,
\* the forward and the reverse iteration
StoreView(prefix, d) ==
  [get |-> [k \in ByteStrings(2) |-> StoreGet(prefix, d, k)],
   has |-> [k \in ByteStrings(2) |-> StoreHas(prefix, d, k)],
   forward |-> Drain(PrefixForwardIterator(prefix, d, None, None)),
   reverse |-> Drain(PrefixReverseIterator(prefix, d, None, None))]

Disjoint(p1, p2) == ~HasPrefix(p1, p2) /\ ~HasPrefix(p2, p1)

\* the entries the sub-store holds: local key -> value
StoreEntries(prefix, d) ==
  [k \in {x \in ByteStrings(2) : StoreHas(prefix, d, x)} |-> StoreGet(prefix, d, k)]

\* C21: a Set or Delete through the sub-store of one prefix leaves Get, Has
\* and both iterations of every sub-store of a prefix disjoint from it (neither
\* a byte-prefix of the other) unchanged, and changes its own entries by the
\* one written or deleted; when no sub-store of a nested prefix has been
\* written, iterating a prefix yields in ascending order exactly the keys of
\* its entries.
C21_DisjointPrefixes ==
  /\ [][lastOp'.op \in {"Store.Set", "Store.Delete"} =>
         /\ \A q \in StorePrefixes :
              Disjoint(lastOp'.prefix, q) => StoreView(q, db') = StoreView(q, db)
         /\ StoreEntries(lastOp'.prefix, db')
              = (IF lastOp'.op = "Store.Set"
                   THEN Put(StoreEntries(lastOp'.prefix, db), lastOp'.key, lastOp'.value)
                   ELSE Del(StoreEntries(lastOp'.prefix, db), lastOp'.key))]_vars
  /\ [](\A prefix \in StorePrefixes :
          Drain(PrefixForwardIterator(prefix, db, None, None))
            = SortKeys(DOMAIN StoreEntries(prefix, db)))

\* k -> v1 under one prefix and k -> v2 under another: iterating the first
\* yields k alone, with v1
C21_Witness ==
  /\ lastOp.op = "Store.Set" /\ lastOp.prefix = <<255>>
  /\ StoreEntries(<<1>>, db) = [k \in {<<255>>} |-> Bytes(<<1>>)]
  /\ StoreEntries(<<255>>, db) = [k \in {<<255>>} |-> Bytes(<<2>>)]
  /\ Drain(PrefixForwardIterator(<<1>>, db, None, None)) = <<<<255>>>>

\* the local keys of the sub-store of prefix over the backend d
LocalKeys(prefix, d) == {PrefixSuffix(prefix, k) : k \in {x \in DOMAIN d : HasPrefix(x, prefix)}}

\* caller p has just been handed an iterator by the call named op
Fresh(p, op) == pc[p] = "iterator" /\ lastOp.op = op /\ lastOp.proc = p

\* C22: a forward iterator over [start, end) yields, ascending and each once,
\* exactly the sub-store's local keys k with start <= k and, when end is given,
\* k < end; with no end it yields every key from start on, also for a prefix of
\* 0xFF bytes and for the empty prefix.
C22_ForwardRange ==
  \A p \in Procs :
    Fresh(p, "Iterator") =>
      Drain(loc[p])
        = SortKeys({k \in LocalKeys(loc[p].prefix, db) :
                      /\ ~LexLess(k, loc[p].start.key)
                      /\ loc[p].end.none \/ LexLess(k, loc[p].end.key)})

\* prefix ff, whose Above() is none: the scan from local key 00 on, with no end
C22_Witness ==
  /\ Fresh(1, "Iterator")
  /\ loc[1].prefix = <<255>> /\ loc[1].start = Some(<<0>>) /\ loc[1].end = None
  /\ {<<2>>, <<255>>, <<255, 0>>} \subseteq DOMAIN db
  /\ Drain(loc[1]) = <<<<0>>>>

\* C23: a reverse iterator with no bounds yields, descending and each once,
\* exactly the sub-store's local keys: a physical key equal to Above() and the
\* keys between Below() and the prefix are not among them, every key of the
\* sub-store is.
C23_ReverseAll ==
  \A p \in Procs :
    (Fresh(p, "ReverseIterator") /\ loc[p].start.none /\ loc[p].end.none) =>
      Drain(loc[p]) = Reversed(SortKeys(LocalKeys(loc[p].prefix, db)))

\* C24 as stated: the reverse scan starts at Above() and ends, exclusively, at
\* Key(start) when start is given and at Below() otherwise; every key yielded
\* is at or above start and below end.
C24_ReverseStartIsLower ==
  \A p \in Procs :
    Fresh(p, "ReverseIterator") =>
      /\ loc[p].end.none =>
           loc[p].keys
             = SourceReverseIterator(db, Above(loc[p].prefix),
                                     IF loc[p].start.none THEN Below(loc[p].prefix)
                                     ELSE Some(PrefixKey(loc[p].prefix, loc[p].start.key)))
      /\ \A i \in 1..Len(Drain(loc[p])) :
           /\ loc[p].start.none \/ ~LexLess(Drain(loc[p])[i], loc[p].start.key)
           /\ loc[p].end.none \/ LexLess(Drain(loc[p])[i], loc[p].end.key)

\* C24: the reverse scan starts, inclusively, at Key(start) when start is
\* given and at Above() otherwise, and ends, exclusively, at Key(end) when end
\* is given and at Below() otherwise: start is the upper bound and end the
\* lower one, and under a prefix that is not empty the keys yielded are,
\* descending, the sub-store's keys k with end < k <= start.
C24_ReverseStartIsUpper ==
  \A p \in Procs :
    Fresh(p, "ReverseIterator") =>
      /\ loc[p].keys
           = SourceReverseIterator(db,
               IF loc[p].start.none THEN Above(loc[p].prefix)
               ELSE Some(PrefixKey(loc[p].prefix, loc[p].start.key)),
               IF loc[p].end.none THEN Below(loc[p].prefix)
               ELSE Some(PrefixKey(loc[p].prefix, loc[p].end.key)))
      /\ loc[p].prefix # <<>> =>
           Drain(loc[p])
             = Reversed(SortKeys({k \in LocalKeys(loc[p].prefix, db) :
                                    /\ loc[p].start.none \/ ~LexLess(loc[p].start.key, k)
                                    /\ loc[p].end.none \/ LexLess(loc[p].end.key, k)}))

\* prefix 01 with start 00 and no end: the keys at and below local key 00 are
\* yielded, the one above it is not
C24_Witness ==
  /\ Fresh(1, "ReverseIterator")
  /\ loc[1].prefix = <<1>> /\ loc[1].start = Some(<<0>>) /\ loc[1].end = None
  /\ {<<0, 255>>, <<1>>, <<1, 0>>, <<1, 255>>} \subseteq DOMAIN db
  /\ Drain(loc[1]) = <<<<0>>, <<>>>>

\* C25 as stated: in every reachable state GetAccount and GetName return no
\* value and no error for a key that has been removed, from the moment
\* RemoveAccount or RemoveName returns.
C25_AbsentOnceRemoved ==
  /\ lastOp.op = "RemoveAccount" => GetAccount(s, lastOp.arg) = Absent
  /\ lastOp.op = "RemoveName" => GetName(s, lastOp.arg) = Absent

\* C25: GetAccount, GetName, GetBlock and GetTx return no value and no error
\* for a key the sealed tree does not hold and for a block or tx hash that was
\* never added; RemoveAccount and RemoveName take the key out of the working
\* tree, and once an Update has committed, the lookups of every key that is
\* not in the working tree return no value and no error.
C25_AbsenceIsNotAnError ==
  /\ \A address \in QueryAddresses :
       ~TreeHas(s.tree, accountKey(address)) => GetAccount(s, address) = Absent
  /\ \A name \in QueryNames : ~TreeHas(s.tree, nameKey(name)) => GetName(s, name) = Absent
  /\ \A h \in 0..(MaxHeight + 1) :
       RefsGet(s.cacheDB, db, blockRefKey(h)) = Nil => GetBlock(s, h) = Absent
  /\ \A h \in TxHashes : RefsGet(s.cacheDB, db, txKey(h)) = Nil => GetTx(s, h) = Absent
  /\ lastOp.op = "RemoveAccount" => accountKey(lastOp.arg) \notin DOMAIN s.tree.working
  /\ lastOp.op = "RemoveName" => nameKey(lastOp.arg) \notin DOMAIN s.tree.working
  /\ (lastOp.op = "Update" /\ lastOp.err = "") =>
       /\ \A address \in QueryAddresses :
            accountKey(address) \notin DOMAIN s.tree.working => GetAccount(s, address) = Absent
       /\ \A name \in QueryNames :
            nameKey(name) \notin DOMAIN s.tree.working => GetName(s, name) = Absent

\* the second commit has removed an account and a name that the first had sealed
C25_Witness ==
  /\ lastOp.op = "Update" /\ lastOp.err = "" /\ s.tree.version = 2
  /\ \E address \in Addresses :
       /\ accountKey(address) \in DOMAIN db[TreeRootKey(1)].kv
       /\ GetAccount(s, address) = Absent
  /\ \E name \in Names :
       /\ nameKey(name) \in DOMAIN db[TreeRootKey(1)].kv
       /\ GetName(s, name) = Absent
  /\ GetBlock(s, 1) = Absent
  /\ GetTx(s, TxHashLow) = Absent

\* C26: when the tx reference stored for a hash H names (height, index) and
\* the block stored for that height has no more than index transactions,
\* GetTx(H) returns an error and no transaction.
C26_GetTxIndexOutOfRange ==
  \A h \in TxHashes :
    LET ref == RefsGet(s.cacheDB, db, txKey(h))
    IN ref # Nil =>
         LET at == ScanTxRef(ref.bytes)
             block == RefsGet(s.cacheDB, db, blockRefKey(at.height))
         IN (block # Nil /\ at.index >= Len(block.be.TxExecutions)) =>
              GetTx(s, h).err /\ GetTx(s, h).val = Nil

\* the storage entries of address in the tree of st, ascending: local key and value
StoredSlots(st, address) ==
  LET ks == SortKeys({k \in DOMAIN st.tree.read : HasPrefix(k, <<ByteS>> \o address)})
  IN [i \in 1..Len(ks) |->
        <<PrefixSuffix(<<ByteS>> \o address, ks[i]), st.tree.read[ks[i]].bytes>>]

IsWord(bs) == Len(bs) = Word256Length

\* the number of leading entries that are 32 bytes wide in key and value
WordsBefore(slots) ==
  Cardinality({i \in 1..Len(slots) :
                 \A j \in 1..i : IsWord(slots[j][1]) /\ IsWord(slots[j][2])})

StopRequests == 0..3

\* C27: IterateStorage hands the visitor only pairs whose stored key suffix
\* and stored value are 32 bytes wide, in ascending order; when it reaches an
\* entry of another width before the visitor asks to stop, it returns an error
\* having visited exactly the entries before that one, and none after it.
C27_IterateStorageWidth ==
  (lastOp.op = "LoadState" /\ ~lastOp.err) =>
    \A address \in QueryAddresses, stopAt \in StopRequests :
      LET slots == StoredSlots(lastOp.state, address)
          n == WordsBefore(slots)
          r == IterateStorage(lastOp.state, address, stopAt)
      IN /\ \A i \in 1..Len(r.visited) : IsWord(r.visited[i][1]) /\ IsWord(r.visited[i][2])
         /\ (n < Len(slots) /\ (stopAt = 0 \/ stopAt > n)) =>
              r = [stopped |-> TRUE, err |-> TRUE, visited |-> SubSeq(slots, 1, n)]
         /\ (stopAt \in 1..n) =>
              r = [stopped |-> TRUE, err |-> FALSE, visited |-> SubSeq(slots, 1, stopAt)]
         /\ (n = Len(slots) /\ (stopAt = 0 \/ stopAt > n)) =>
              r = [stopped |-> FALSE, err |-> FALSE, visited |-> slots]

\* a 32-byte slot, then a slot whose value is 31 bytes, then a 32-byte slot:
\* the first is visited, the call fails, the third is never visited
C27_Witness ==
  /\ lastOp.op = "LoadState" /\ ~lastOp.err
  /\ Len(StoredSlots(lastOp.state, Address(1))) = 3
  /\ ~IsWord(StoredSlots(lastOp.state, Address(1))[2][2])
  /\ IterateStorage(lastOp.state, Address(1), 0)
       = [stopped |-> TRUE, err |-> TRUE,
          visited |-> <<<<Word256(1), Word256(1)>>>>]

\* what a traversal of the entries all returns when the visitor asks to stop
\* at its stopAt-th call
Traversal(all, stopAt) ==
  IF stopAt \in 1..Len(all)
    THEN [stopped |-> TRUE, err |-> FALSE, visited |-> SubSeq(all, 1, stopAt)]
    ELSE [stopped |-> FALSE, err |-> FALSE, visited |-> all]

\* the values stored in the tree of st under the keys of a tag, ascending in key
StoredUnder(st, tag) ==
  LET ks == SortKeys({k \in DOMAIN st.tree.read : HasPrefix(k, <<tag>>)})
  IN [i \in 1..Len(ks) |-> st.tree.read[ks[i]]]

\* the Iterate functions of a State over entries that all decode
IterateVisitsInOrder ==
  (lastOp.op = "LoadState" /\ ~lastOp.err) =>
    \A stopAt \in StopRequests :
      /\ IterateAccounts(lastOp.state, stopAt)
           = Traversal([i \in 1..Len(StoredUnder(lastOp.state, ByteA)) |->
                          StoredUnder(lastOp.state, ByteA)[i].acc], stopAt)
      /\ IterateNames(lastOp.state, stopAt)
           = Traversal([i \in 1..Len(StoredUnder(lastOp.state, ByteN)) |->
                          StoredUnder(lastOp.state, ByteN)[i].entry], stopAt)
      /\ \A address \in QueryAddresses :
           WordsBefore(StoredSlots(lastOp.state, address))
               = Len(StoredSlots(lastOp.state, address)) =>
             IterateStorage(lastOp.state, address, stopAt)
               = Traversal(StoredSlots(lastOp.state, address), stopAt)

\* C28: IterateAccounts, IterateStorage, IterateNames and GetBlocks call the
\* visitor once per entry in ascending key order; when the visitor asks to
\* stop, no further entry is visited and the call returns stopped = true and no
\* error; when every entry has been visited it returns stopped = false.
C28_VisitorOrderAndStop ==
  /\ IterateVisitsInOrder
  /\ \A a, b \in 0..(MaxHeight + 1), stopAt \in StopRequests :
       GetBlocks(s, db, a, b, stopAt) = Traversal(StoredBlocks(a, b), stopAt)

\* C29: the State that Copy returns over an empty target holds in its tree
\* exactly the key/value pairs the source serves reads from, so GetAccount,
\* GetStorage and GetName agree with the source for every key; the target has
\* been committed to once: it holds one sealed version and one CommitID, which
\* names that version and the hash of the copied tree.
C29_CopyHoldsSourceTree ==
  (lastOp.op = "Copy" /\ ~lastOp.err) =>
    /\ lastOp.state.tree.read = s.tree.read
    /\ SameReads(lastOp.state, s)
    /\ lastOp.state.tree.version = 1
    /\ {v \in 0..(MaxVersion + 1) : TreeRootKey(v) \in DOMAIN lastOp.target} = {1}
    /\ CommittedHashes(lastOp.target) = {NormaliseHash(TreeHash(s.tree.read))}
    /\ CommitIDIn(lastOp.target, NormaliseHash(TreeHash(s.tree.read))).Version = 1

\* a source that has committed twice and holds an account, a slot and a name
C29_Witness ==
  /\ lastOp.op = "Copy" /\ ~lastOp.err
  /\ s.tree.version = 2
  /\ \E address \in Addresses :
       /\ GetAccount(lastOp.state, address) # Absent
       /\ \E key \in SlotKeys : GetStorage(lastOp.state, address, key).val # Zero256
  /\ \E name \in Names : GetName(lastOp.state, name) # Absent
  /\ Cardinality(CommittedHashes(lastOp.target)) = 1
  /\ Cardinality(CommittedHashes(db)) = 2

C31_HashOnlyWhenFlushed ==
  lastOp.op = "Update" =>
    /\ lastOp.err # "panic"
    /\ lastOp.err = "" =>
         /\ TreeRootKey(s.tree.version) \in DOMAIN db
         /\ PrefixKey(refsPrefix, commitKey(lastOp.hash)) \in DOMAIN db

\* C32: the hash a successful Update returns has the hash size; it is the
\* hash of the sealed tree, or tmhash.Size zero bytes when the sealed tree is
\* empty and Save gave the empty hash; the CommitID stored under the commit
\* key of the returned hash carries that same hash.
C32_NormalisedHash ==
  lastOp.op = "Update" /\ lastOp.err = "" =>
    /\ Len(lastOp.hash) = tmhashSize
    /\ lastOp.hash = IF TreeHash(s.tree.read) = <<>> THEN Zeros(tmhashSize)
                     ELSE TreeHash(s.tree.read)
    /\ lastOp.hash \in CommittedHashes(db)
    /\ CommitIDIn(db, lastOp.hash).Hash = lastOp.hash

\* an Update that sealed the empty tree has returned the zero hash
C32_Witness ==
  /\ lastOp.op = "Update" /\ lastOp.err = ""
  /\ TreeHash(s.tree.read) = <<>>
  /\ lastOp.hash = Zeros(tmhashSize)
  /\ CommitIDIn(db, Zeros(tmhashSize)).Hash = Zeros(tmhashSize)

\* C33: a caller of Hash is inside s.tree.Hash() only with the read lock and
\* while no Update is between getting the write lock and returning (so not
\* between two calls of the updater, nor between Save and the batch write);
\* the read lock is shared: RLock gets through whenever no writer holds or
\* waits for the lock, whoever else holds the read lock.
C33_HashOutsideUpdate ==
  /\ [](\A p \in Procs :
          pc[p] = "Hash" => /\ p \in readers
                            /\ \A q \in Procs : pc[q] \notin CriticalSection)
  /\ [][\A p \in Procs :
          (pc[p] = "RLock" /\ wHolder = {} /\ lastOp' = [op |-> "RLock", proc |-> p])
            => (pc'[p] = "Hash" /\ readers' = readers \cup {p})]_vars

\* Hash was called between Save and the batch write of an Update and waits
C33_Witness == \E p, q \in Procs : pc[p] = "RBlocked" /\ pc[q] = "WriteSync"

\* two callers are inside Hash at once
C33_SharedReaders == Cardinality({p \in Procs : pc[p] = "Hash"}) = 2

C35_KeySharesNoStorage ==
  lastOp.op = "WriteKey" =>
    /\ lastOp.prefixAfter = lastOp.prefix
    /\ lastOp.otherAfter = lastOp.otherBefore

\* C35 for local keys that are not empty: the write stays in the key
C35_NonEmptyKeyIsFresh ==
  (lastOp.op = "WriteKey" /\ lastOp.local # <<>>) =>
    /\ lastOp.prefixAfter = lastOp.prefix
    /\ lastOp.otherAfter = lastOp.otherBefore

\* C36: an AddBlock that returns an error (height mismatch, or a block that
\* does not encode) leaves the State as it was: the height, the tx-hash index
\* and the blocks by height in the reference space.
C36_AddBlockAllOrNothing ==
  [][(lastOp'.op = "AddBlock" /\ lastOp'.err # "") =>
       /\ s'.height = s.height
       /\ s'.cacheDB = s.cacheDB
       /\ db' = db]_vars

\* C36 for the height mismatch alone: nothing has been written when the
\* height is checked
C36_HeightMismatchChangesNothing ==
  [][(lastOp'.op = "AddBlock" /\ lastOp'.err = "height") => (s' = s /\ db' = db)]_vars

\* what the backend d holds beside the sealed versions and the CommitIDs
Unsealed(d) == [k \in DOMAIN d \ DOMAIN Sealed(d) |-> d[k]]

\* C37: what an Update whose updater failed has left behind is not sealed or
\* flushed by a later Update that does not write it again: an Update whose
\* updater returns nil without a single call on the write view seals a version
\* that holds what the last sealed version held, and its batch write adds to
\* the backend nothing but that version and its CommitID.
C37_FailedUpdateNotSealedLater ==
  [][(lastOp.op = "Lock" /\ lastOp'.op = "updater" /\ lastOp'.err = "") =>
       /\ commit(s, db, FALSE).state.tree.read = s.tree.read
       /\ Unsealed(commit(s, db, FALSE).db) = Unsealed(db)]_vars

\* C38: whatever the caller calls on a prefixed iterator (Valid, Next, Key,
\* Value, Close, in any order), the underlying iterator is closed at most
\* once.
C38_SourceClosedAtMostOnce ==
  \A p \in Procs : HoldsIterator(p) => loc[p].closed <= 1

====
